---- MODULE Spec2Model ----
(***************************************************************************)
(* Model of app.py: the Olist GenAI data agent.  A question is turned into *)
(* SQL by a completion service, the SQL is sanitized (clean_sql),          *)
(* rewritten (category_map, CURRENT_DATE), executed, repaired once on an   *)
(* execution error (fix_sql) and summarized (explain_results).             *)
(*                                                                         *)
(* Python strings that the program inspects or rewrites are sequences of   *)
(* one-character strings; questions and summaries, which the program only  *)
(* stores and forwards, are plain strings.                                 *)
(***************************************************************************)
EXTENDS Integers, Sequences, FiniteSets, TLC

VARIABLES
    history,        \* st.session_state.history: sequence of dicts
    pc,             \* position of the script run in the turn handler
    user_query,     \* text of the question input
    history_text,   \* the "User: ..." lines of history[:-1]
    sql_query,      \* the generated query of the turn
    fixed_sql,      \* the repaired query of the turn
    result,         \* the DataFrame bound to 'result'
    err,            \* str(e) of the execution error caught at line 142
    log,            \* calls made by the current script run, in order
    fn_in,          \* input of the function under study
    fn_out,         \* its output
    fn_out2,        \* output of a second application
    fn_pc           \* which function was applied

vars == <<history, pc, user_query, history_text, sql_query, fixed_sql,
          result, err, log, fn_in, fn_out, fn_out2, fn_pc>>

turnVars == <<history, pc, user_query, history_text, sql_query, fixed_sql,
              result, err, log>>

fnVars == <<fn_in, fn_out, fn_out2, fn_pc>>

----------------------------------------------------------------------------
(* Bounds *)

MaxLen == 5         \* length of the raw strings given to clean_sql
MaxTag == 1         \* length of the language tag after a fence
MaxChunks == 2      \* number of fragments in a query text
MaxTurns == 2       \* questions submitted in one session
MaxRows == 1        \* rows in a result set

----------------------------------------------------------------------------
(* Python values *)

None == <<"<None>">>

Letters ==
    {"a", "b", "c", "d", "e", "f", "g", "h", "i", "j", "k", "l", "m",
     "n", "o", "p", "q", "r", "s", "t", "u", "v", "w", "x", "y", "z",
     "A", "B", "C", "D", "E", "F", "G", "H", "I", "J", "K", "L", "M",
     "N", "O", "P", "Q", "R", "S", "T", "U", "V", "W", "X", "Y", "Z"}

\* the backtick character (the lexer of TLA+ rejects it inside a string, so
\* it is written as a name; it is one character like the others)
Backtick == "<backtick>"

Fence == <<Backtick, Backtick, Backtick>>

StripChars == {" ", "\n", "\r", Backtick}

Whitespace == {" ", "\n", "\r", "\t"}

\* s[i:i+len(p)] == p
MatchAt(s, p, i) ==
    /\ i >= 1
    /\ i + Len(p) - 1 <= Len(s)
    /\ \A k \in 1..Len(p) : s[i + k - 1] = p[k]

\* p in s
Contains(s, p) == \E i \in 1..(Len(s) - Len(p) + 1) : MatchAt(s, p, i)

(* str.replace(old, new) for a non-empty old: leftmost, non-overlapping,
   one pass *)
RECURSIVE ReplaceFrom(_, _, _, _)
ReplaceFrom(s, old, new, i) ==
    IF i > Len(s) THEN <<>>
    ELSE IF MatchAt(s, old, i)
         THEN new \o ReplaceFrom(s, old, new, i + Len(old))
         ELSE <<s[i]>> \o ReplaceFrom(s, old, new, i + 1)

Replace(s, old, new) == ReplaceFrom(s, old, new, 1)

\* end of the greedy match of a run of letters starting at i: the first
\* index from i on that holds no letter
RECURSIVE SkipLetters(_, _)
SkipLetters(s, i) ==
    IF i <= Len(s) /\ s[i] \in Letters THEN SkipLetters(s, i + 1) ELSE i

\* re.sub of a fence followed by letters, line 48
RECURSIVE SubFenceFrom(_, _)
SubFenceFrom(s, i) ==
    IF i > Len(s) THEN <<>>
    ELSE IF MatchAt(s, Fence, i)
         THEN SubFenceFrom(s, SkipLetters(s, i + 3))
         ELSE <<s[i]>> \o SubFenceFrom(s, i + 1)

SubFence(s) == SubFenceFrom(s, 1)

(* str.strip(chars) *)
RECURSIVE LStrip(_, _)
LStrip(s, chars) ==
    IF s # <<>> /\ Head(s) \in chars THEN LStrip(Tail(s), chars) ELSE s

RECURSIVE RStrip(_, _)
RStrip(s, chars) ==
    IF s # <<>> /\ s[Len(s)] \in chars
    THEN RStrip(SubSeq(s, 1, Len(s) - 1), chars)
    ELSE s

(* a strip that removes at most one character from each end *)
StripOne(s, chars) ==
    LET l == IF s # <<>> /\ Head(s) \in chars THEN Tail(s) ELSE s
    IN  IF l # <<>> /\ l[Len(l)] \in chars
        THEN SubSeq(l, 1, Len(l) - 1)
        ELSE l

Strip(s, chars) == RStrip(LStrip(s, chars), chars)

(* clean_sql, lines 44-50 *)
clean_sql(sql_text) ==
    IF sql_text = None THEN <<>>
    ELSE Strip(Replace(SubFence(sql_text), Fence, <<>>), StripChars)

----------------------------------------------------------------------------
(* Pre-execution substitutions *)

PLACEHOLDER == <<"C", "U", "R", "R", "E", "N", "T", "_", "D", "A", "T", "E">>

\* str(max_date.date()): the latest order_purchase_timestamp of the table
max_date == <<"2", "0", "1", "8", "-", "0", "9", "-", "0", "3">>

\* f"DATE '{max_date.date()}'"
DateLiteral == <<"D", "A", "T", "E", " ", "'">> \o max_date \o <<"'">>

\* f"'{eng}'"
Quote(s) == <<"'">> \o s \o <<"'">>

electronics == <<"e", "l", "e", "c", "t", "r", "o", "n", "i", "c", "s">>
furniture == <<"f", "u", "r", "n", "i", "t", "u", "r", "e">>
fashion == <<"f", "a", "s", "h", "i", "o", "n">>
health_beauty ==
    <<"h", "e", "a", "l", "t", "h", "_", "b", "e", "a", "u", "t", "y">>
toys == <<"t", "o", "y", "s">>
books == <<"b", "o", "o", "k", "s">>

\* the dict of lines 127-134, in insertion order
category_map ==
    << [eng |-> electronics,
        por |-> <<"e", "l", "e", "t", "r", "o", "n", "i", "c", "o", "s">>],
       [eng |-> furniture,
        por |-> <<"m", "o", "v", "e", "i", "s", "_", "d", "e", "c", "o", "r",
                  "a", "c", "a", "o">>],
       [eng |-> fashion,
        por |-> <<"f", "a", "s", "h", "i", "o", "n", "_", "b", "o", "l", "s",
                  "a", "s", "_", "e", "_", "a", "c", "e", "s", "s", "o", "r",
                  "i", "o", "s">>],
       [eng |-> health_beauty,
        por |-> <<"b", "e", "l", "e", "z", "a", "_", "s", "a", "u", "d",
                  "e">>],
       [eng |-> toys,
        por |-> <<"b", "r", "i", "n", "q", "u", "e", "d", "o", "s">>],
       [eng |-> books,
        por |-> <<"l", "i", "v", "r", "o", "s", "_", "t", "e", "c", "n", "i",
                  "c", "o", "s">>] >>

\* the loop of lines 135-136, from the k-th item of the dict on
RECURSIVE CategoryFrom(_, _)
CategoryFrom(sql, k) ==
    IF k > Len(category_map) THEN sql
    ELSE CategoryFrom(Replace(sql, Quote(category_map[k].eng),
                                   Quote(category_map[k].por)), k + 1)

CategorySubst(sql) == CategoryFrom(sql, 1)

\* lines 102 and 140
DateSubst(sql) == Replace(sql, PLACEHOLDER, DateLiteral)

----------------------------------------------------------------------------
(* Inputs of the functions under study *)

Alphabet == {Backtick, "a", " ", "\n", "\t", ";"}

StringsUpTo(n) == UNION {[1..k -> Alphabet] : k \in 0..n}

TagLetters == {"s", "Q"}

Tags == UNION {[1..k -> TagLetters] : k \in 0..MaxTag}

\* a fenced block: the fence, a language tag, the body on its own lines
Fenced(tag, b) == Fence \o tag \o <<"\n">> \o b \o <<"\n">> \o Fence

CleanInputs ==
    StringsUpTo(MaxLen) \cup {None}
        \cup {Fenced(tag, b) : tag \in Tags, b \in StringsUpTo(2)}

RECURSIVE Concat(_)
Concat(ss) == IF ss = <<>> THEN <<>> ELSE Head(ss) \o Concat(Tail(ss))

Chunks ==
    {PLACEHOLDER, SubSeq(PLACEHOLDER, 1, 8), <<" ">>, <<"x">>, <<"'">>,
     Quote(<<"x">>), Fence}
        \cup {Quote(category_map[k].eng) : k \in 1..Len(category_map)}
        \cup {category_map[k].eng \o <<"'">> : k \in 1..Len(category_map)}

QueryTexts ==
    {Concat(c) : c \in UNION {[1..k -> Chunks] : k \in 0..MaxChunks}}

----------------------------------------------------------------------------
(* The turn handler at rest *)

Unbound == [rows |-> -1, num_cols |-> 0]

TurnInit ==
    /\ history = <<>>
    /\ pc = "idle"
    /\ user_query = ""
    /\ history_text = <<>>
    /\ sql_query = None
    /\ fixed_sql = None
    /\ result = Unbound
    /\ err = ""
    /\ log = <<>>

FnIdle ==
    /\ fn_in = None
    /\ fn_out = None
    /\ fn_out2 = None
    /\ fn_pc = "off"

----------------------------------------------------------------------------
(* clean_sql as a function of its input *)

CleanInit ==
    /\ TurnInit
    /\ fn_in \in CleanInputs
    /\ fn_out = None
    /\ fn_out2 = None
    /\ fn_pc = "input"

CleanOnce ==
    /\ fn_pc = "input"
    /\ fn_out' = clean_sql(fn_in)
    /\ fn_pc' = "cleaned"
    /\ UNCHANGED <<fn_in, fn_out2>>
    /\ UNCHANGED turnVars

CleanAgain ==
    /\ fn_pc = "cleaned"
    /\ fn_out2' = clean_sql(fn_out)
    /\ fn_pc' = "recleaned"
    /\ UNCHANGED <<fn_in, fn_out>>
    /\ UNCHANGED turnVars

CleanNext == CleanOnce \/ CleanAgain

SpecClean == CleanInit /\ [][CleanNext]_vars

----------------------------------------------------------------------------
(* The substitutions as functions of the text returned by the service *)

SubstInit ==
    /\ TurnInit
    /\ fn_in \in QueryTexts
    /\ fn_out = None
    /\ fn_out2 = None
    /\ fn_pc = "input"

\* initial path, lines 74 and 135-136
SubstCategory ==
    /\ fn_pc = "input"
    /\ fn_out' = clean_sql(fn_in)
    /\ fn_out2' = CategorySubst(clean_sql(fn_in))
    /\ fn_pc' = "translated"
    /\ UNCHANGED fn_in
    /\ UNCHANGED turnVars

\* initial path, line 140
SubstDate ==
    /\ fn_pc = "translated"
    /\ fn_out' = fn_out2
    /\ fn_out2' = DateSubst(fn_out2)
    /\ fn_pc' = "dated"
    /\ UNCHANGED fn_in
    /\ UNCHANGED turnVars

\* repair path, lines 100-102
SubstRepair ==
    /\ fn_pc = "input"
    /\ fn_out' = clean_sql(fn_in)
    /\ fn_out2' = DateSubst(clean_sql(fn_in))
    /\ fn_pc' = "repaired"
    /\ UNCHANGED fn_in
    /\ UNCHANGED turnVars

SubstNext == SubstCategory \/ SubstDate \/ SubstRepair

SpecSubst == SubstInit /\ [][SubstNext]_vars

----------------------------------------------------------------------------
(* The environment of a turn: the question, the completion service, the
   engine *)

Questions == {"q1", "q2"}

\* texts the completion service may put in candidates[0].content.parts[0].text
ServiceTexts ==
    {None, Fence, <<"x">>,
     Fenced(<<"s">>, PLACEHOLDER \o <<" ">> \o Quote(toys))}

Summaries == {"s1"}

\* a response body without the text field, and one with it
Replies(texts) == {[error |-> "status"]} \cup {[text |-> t] : t \in texts}

\* gemini_call, lines 52-56: requests.post or response.json() raises, or
\* the parsed body is returned
gemini_call(texts) ==
    {[raised |-> TRUE]}
        \cup {[raised |-> FALSE, res |-> r] : r \in Replies(texts)}

\* res["candidates"][0]["content"]["parts"][0]["text"] does not raise
HasText(res) == "text" \in DOMAIN res

\* what a gemini_call did, as recorded in the log
Kind(o) ==
    IF o.raised THEN "raise" ELSE IF HasText(o.res) THEN "text" ELSE "notext"

\* pd.DataFrame()
EmptyFrame == [rows |-> 0, num_cols |-> 0]

\* con.execute(sql).df(), lines 141 and 149: the engine raises, or returns
\* a frame
Execute ==
    {[raised |-> TRUE, e |-> "engine error"]}
        \cup {[raised |-> FALSE, df |-> [rows |-> n, num_cols |-> k]] :
                 n \in 0..MaxRows, k \in 0..1}

\* a frame tested only for having been bound
IsEmptyUnbound(df) == df = Unbound

\* a frame tested only for having no column
IsEmptyNoColumns(df) == df.rows = 0 /\ df.num_cols = 0

\* result.empty
IsEmpty(df) == df.rows = 0


\* a test for None only, which lets the empty string through
TruthyNotNone(s) == s # None

\* truth value of a str or None, lines 122 and 146
Truthy(s) == s # None /\ s # <<>>

\* d[k] = v on a dict
SetItem(d, k, v) == [x \in DOMAIN d \cup {k} |-> IF x = k THEN v ELSE d[x]]

Show(kind, msg) == [ev |-> "show", kind |-> kind, msg |-> msg]

Completion(who, prompt, o) ==
    [ev |-> "completion", who |-> who, prompt |-> prompt, outcome |-> Kind(o),
     reply |-> o]

Execution(sql, o) ==
    [ev |-> "execute", sql |-> sql,
     outcome |-> IF o.raised THEN "error"
                 ELSE IF o.df.rows = 0 THEN "empty" ELSE "rows"]

Fallback == "Could not generate summary."

----------------------------------------------------------------------------
(* The turn handler, lines 112-183, one action per step *)


\* a submission on a history that is created anew by every script run
SubmitReset ==
    /\ pc \in {"idle", "aborted"}
    /\ Len(history) < MaxTurns
    /\ \E q \in Questions :
        /\ user_query' = q
        /\ history' = <<[user |-> q]>>
        /\ history_text' = <<>>
        /\ log' = <<[ev |-> "append", user |-> q]>>
    /\ pc' = "generate"
    /\ sql_query' = None
    /\ fixed_sql' = None
    /\ result' = Unbound
    /\ err' = ""
    /\ UNCHANGED fnVars

\* a submission whose replayed context holds the whole history
SubmitWholeHistory ==
    /\ pc \in {"idle", "aborted"}
    /\ Len(history) < MaxTurns
    /\ \E q \in Questions :
        /\ user_query' = q
        /\ history' = Append(history, [user |-> q])
        /\ history_text' = [i \in 1..Len(history') |->
                               <<"User: ", history'[i].user>>]
        /\ log' = <<[ev |-> "append", user |-> q]>>
    /\ pc' = "generate"
    /\ sql_query' = None
    /\ fixed_sql' = None
    /\ result' = Unbound
    /\ err' = ""
    /\ UNCHANGED fnVars

\* lines 112-117: the button is pressed with a question in the input
Submit ==
    /\ pc \in {"idle", "aborted"}
    /\ Len(history) < MaxTurns
    /\ \E q \in Questions :
        /\ user_query' = q
        /\ history' = Append(history, [user |-> q])
        /\ history_text' = [i \in 1..Len(history) |-> <<"User: ", history[i].user>>]
        /\ log' = <<[ev |-> "append", user |-> q]>>
    /\ pc' = "generate"
    /\ sql_query' = None
    /\ fixed_sql' = None
    /\ result' = Unbound
    /\ err' = ""
    /\ UNCHANGED fnVars

\* line 115 is false: the button is not pressed, or the input is empty
Skip ==
    /\ pc \in {"idle", "aborted"}
    /\ \E q \in Questions \cup {""}, run_btn \in BOOLEAN :
        /\ ~(run_btn /\ q # "")
        /\ user_query' = q
    /\ log' = <<>>
    /\ pc' = "sidebar"
    /\ history_text' = <<>>
    /\ sql_query' = None
    /\ fixed_sql' = None
    /\ result' = Unbound
    /\ err' = ""
    /\ UNCHANGED history
    /\ UNCHANGED fnVars

\* lines 119-120 and generate_sql, lines 58-79
Generate ==
    /\ pc = "generate"
    /\ \E o \in gemini_call(ServiceTexts) :
        LET call == Completion("generate",
                               [history_text |-> history_text,
                                user_query |-> user_query], o)
        IN  IF o.raised
            THEN /\ log' = Append(log, call)
                 /\ pc' = "aborted"
                 /\ UNCHANGED sql_query
            ELSE IF HasText(o.res)
            THEN /\ log' = Append(log, call)
                 /\ sql_query' = clean_sql(o.res.text)
                 /\ pc' = "guard"
            ELSE /\ log' = log \o <<call,
                               Show("error", "Gemini could not generate SQL."),
                               Show("write", "res")>>
                 /\ sql_query' = None
                 /\ pc' = "guard"
    /\ UNCHANGED <<history, user_query, history_text, fixed_sql, result, err>>
    /\ UNCHANGED fnVars

\* lines 122-136: a query was generated; show it and translate categories
Translate ==
    /\ pc = "guard"
    /\ Truthy(sql_query)
    /\ log' = Append(log, Show("code", sql_query))
    /\ sql_query' = CategorySubst(sql_query)
    /\ pc' = "execute"
    /\ UNCHANGED <<history, user_query, history_text, fixed_sql, result, err>>
    /\ UNCHANGED fnVars

\* lines 174-175: no query was generated
NoSql ==
    /\ pc = "guard"
    /\ ~Truthy(sql_query)
    /\ log' = Append(log, Show("warning",
                               "Gemini could not generate SQL for that query."))
    /\ pc' = "sidebar"
    /\ UNCHANGED <<history, user_query, history_text, sql_query, fixed_sql,
                   result, err>>
    /\ UNCHANGED fnVars


\* the initial attempt, taking a result without rows for a failure too
ExecInitialRepairOnEmpty ==
    /\ pc = "execute"
    /\ sql_query' = DateSubst(sql_query)
    /\ \E o \in Execute :
        /\ log' = Append(log, Execution(sql_query', o))
        /\ IF o.raised
           THEN /\ err' = o.e
                /\ pc' = "repair"
                /\ UNCHANGED result
           ELSE IF o.df.rows = 0
           THEN /\ err' = "no rows"
                /\ pc' = "repair"
                /\ UNCHANGED result
           ELSE /\ result' = o.df
                /\ pc' = "result"
                /\ UNCHANGED err
    /\ UNCHANGED <<history, user_query, history_text, fixed_sql>>
    /\ UNCHANGED fnVars

\* lines 138-142: the initial attempt
ExecInitial ==
    /\ pc = "execute"
    /\ sql_query' = DateSubst(sql_query)
    /\ \E o \in Execute :
        /\ log' = Append(log, Execution(sql_query', o))
        /\ IF o.raised
           THEN /\ err' = o.e
                /\ pc' = "repair"
                /\ UNCHANGED result
           ELSE /\ result' = o.df
                /\ pc' = "result"
                /\ UNCHANGED err
    /\ UNCHANGED <<history, user_query, history_text, fixed_sql>>
    /\ UNCHANGED fnVars

\* a repair that translates the categories of the repaired query as well
RepairTranslated ==
    /\ pc = "repair"
    /\ \E o \in gemini_call(ServiceTexts) :
        LET warn == Show("warning", "SQL failed")
            call == Completion("fix",
                               [original_sql |-> sql_query,
                                error_message |-> err], o)
        IN  /\ log' = log \o <<warn, call>>
            /\ IF o.raised
               THEN /\ pc' = "aborted"
                    /\ UNCHANGED fixed_sql
               ELSE /\ pc' = "repaired"
                    /\ fixed_sql' =
                         IF HasText(o.res)
                         THEN DateSubst(CategorySubst(clean_sql(o.res.text)))
                         ELSE None
    /\ UNCHANGED <<history, user_query, history_text, sql_query, result, err>>
    /\ UNCHANGED fnVars

\* lines 143-145 and fix_sql, lines 90-105
Repair ==
    /\ pc = "repair"
    /\ \E o \in gemini_call(ServiceTexts) :
        LET warn == Show("warning", "SQL failed")
            call == Completion("fix",
                               [original_sql |-> sql_query,
                                error_message |-> err], o)
        IN  /\ log' = log \o <<warn, call>>
            /\ IF o.raised
               THEN /\ pc' = "aborted"
                    /\ UNCHANGED fixed_sql
               ELSE /\ pc' = "repaired"
                    /\ fixed_sql' = IF HasText(o.res)
                                    THEN DateSubst(clean_sql(o.res.text))
                                    ELSE None
    /\ UNCHANGED <<history, user_query, history_text, sql_query, result, err>>
    /\ UNCHANGED fnVars


\* the repaired attempt, leading to another repair when it fails
ExecFixedRetry ==
    /\ pc = "repaired"
    /\ Truthy(fixed_sql)
    /\ \E o \in Execute :
        IF o.raised
        THEN /\ log' = log \o <<Show("code", fixed_sql),
                                Execution(fixed_sql, o)>>
             /\ pc' = "repair"
             /\ UNCHANGED result
        ELSE /\ log' = log \o <<Show("code", fixed_sql),
                                Execution(fixed_sql, o)>>
             /\ result' = o.df
             /\ pc' = "result"
    /\ UNCHANGED <<history, user_query, history_text, sql_query, fixed_sql,
                   err>>
    /\ UNCHANGED fnVars

\* lines 146-152: the repaired attempt
ExecFixed ==
    /\ pc = "repaired"
    /\ Truthy(fixed_sql)
    /\ \E o \in Execute :
        IF o.raised
        THEN /\ log' = log \o <<Show("code", fixed_sql),
                                Execution(fixed_sql, o),
                                Show("error", "Still invalid after correction")>>
             /\ result' = EmptyFrame
        ELSE /\ log' = log \o <<Show("code", fixed_sql),
                                Execution(fixed_sql, o)>>
             /\ result' = o.df
    /\ pc' = "result"
    /\ UNCHANGED <<history, user_query, history_text, sql_query, fixed_sql,
                   err>>
    /\ UNCHANGED fnVars

\* lines 153-154: the repair produced no query
RepairEmpty ==
    /\ pc = "repaired"
    /\ ~Truthy(fixed_sql)
    /\ result' = EmptyFrame
    /\ pc' = "result"
    /\ UNCHANGED <<history, user_query, history_text, sql_query, fixed_sql,
                   err, log>>
    /\ UNCHANGED fnVars

\* lines 156-165: the table of the result, and the chart when a column is
\* numeric
Render ==
    /\ pc = "result"
    /\ ~IsEmpty(result)
    /\ log' = log \o <<Show("dataframe", "result.head(20)")>>
                  \o (IF result.num_cols >= 1
                      THEN <<Show("chart", "Visualization")>>
                      ELSE <<>>)
    /\ pc' = "summarize"
    /\ UNCHANGED <<history, user_query, history_text, sql_query, fixed_sql,
                   result, err>>
    /\ UNCHANGED fnVars


\* a summarizer that reads the text field outside a try
SummarizeNoTry ==
    /\ pc = "summarize"
    /\ \E o \in gemini_call(Summaries) :
        LET call == Completion("explain", [user_query |-> user_query], o)
        IN  IF o.raised \/ ~HasText(o.res)
            THEN /\ log' = Append(log, call)
                 /\ pc' = "aborted"
                 /\ UNCHANGED history
            ELSE /\ log' = log \o <<call,
                                    Show("write", "Insight Summary"),
                                    Show("write", o.res.text)>>
                 /\ history' = [history EXCEPT ![Len(history)] =
                                    SetItem(@, "summary", o.res.text)]
                 /\ pc' = "sidebar"
    /\ UNCHANGED <<user_query, history_text, sql_query, fixed_sql, result,
                   err>>
    /\ UNCHANGED fnVars

\* lines 167-171 and explain_results, lines 81-88
Summarize ==
    /\ pc = "summarize"
    /\ \E o \in gemini_call(Summaries) :
        LET call == Completion("explain", [user_query |-> user_query], o)
            summary == IF HasText(o.res) THEN o.res.text ELSE Fallback
        IN  IF o.raised
            THEN /\ log' = Append(log, call)
                 /\ pc' = "aborted"
                 /\ UNCHANGED history
            ELSE /\ log' = log \o <<call,
                                    Show("write", "Insight Summary"),
                                    Show("write", summary)>>
                 /\ history' = [history EXCEPT ![Len(history)] =
                                    SetItem(@, "summary", summary)]
                 /\ pc' = "sidebar"
    /\ UNCHANGED <<user_query, history_text, sql_query, fixed_sql, result,
                   err>>
    /\ UNCHANGED fnVars

\* lines 172-173
NoData ==
    /\ pc = "result"
    /\ IsEmpty(result)
    /\ log' = Append(log, Show("warning", "No data returned for this query."))
    /\ pc' = "sidebar"
    /\ UNCHANGED <<history, user_query, history_text, sql_query, fixed_sql,
                   result, err>>
    /\ UNCHANGED fnVars

\* lines 178-183: the script run ends with the sidebar
Sidebar ==
    /\ pc = "sidebar"
    /\ log' = Append(log, [ev |-> "sidebar", entries |-> Len(history)])
    /\ pc' = "idle"
    /\ UNCHANGED <<history, user_query, history_text, sql_query, fixed_sql,
                   result, err>>
    /\ UNCHANGED fnVars

Init == TurnInit /\ FnIdle

Next ==
    \/ Submit
    \/ Skip
    \/ Generate
    \/ Translate
    \/ NoSql
    \/ ExecInitial
    \/ Repair
    \/ ExecFixed
    \/ RepairEmpty
    \/ Render
    \/ Summarize
    \/ NoData
    \/ Sidebar

Spec == Init /\ [][Next]_vars

----------------------------------------------------------------------------
(* What a script run did, read from its log *)

Execs == {i \in DOMAIN log : log[i].ev = "execute"}

Calls(who) ==
    {i \in DOMAIN log : log[i].ev = "completion" /\ log[i].who = who}

Shows(kind) == {i \in DOMAIN log : log[i].ev = "show" /\ log[i].kind = kind}

Messages == {i \in DOMAIN log : log[i].ev = "show"}

\* the script run is over: it reached the end of the script, or an
\* exception left it
RunOver == pc \in {"idle", "aborted"}

\* the script run handled a question
InTurn == log # <<>> /\ log[1].ev = "append"

\* the entry that the turn appended
Entry == history[Len(history)]

\* the first execution of the turn raised
InitialFailed ==
    \E i \in Execs : /\ \A j \in Execs : i <= j
                     /\ log[i].outcome = "error"

\* the second execution of the turn raised
RepairedFailed ==
    \E i, j \in Execs : i < j /\ log[j].outcome = "error"

\* the repair request was made and gave no query to execute
RepairGaveNoSql ==
    /\ Calls("fix") # {}
    /\ pc # "repair"
    /\ ~Truthy(fixed_sql)

----------------------------------------------------------------------------
(* Claims *)

\* C1: in a turn the executor runs at most twice and the repair completion
\* is requested at most once; once the repaired attempt has failed, the
\* rest of the turn neither executes nor repairs again and comes to its
\* normal end.
RepairBound ==
    /\ [](Cardinality(Execs) <= 2 /\ Cardinality(Calls("fix")) <= 1)
    /\ [][RepairedFailed /\ pc # "idle"
            => /\ Cardinality(Execs') = Cardinality(Execs)
               /\ Cardinality(Calls("fix")') = Cardinality(Calls("fix"))
               /\ pc' \in {"result", "sidebar", "idle"}]_vars

\* both attempts of a turn failed and the turn is over
RepairBoundWitness ==
    /\ pc = "idle"
    /\ Cardinality(Execs) = 2
    /\ Cardinality(Calls("fix")) = 1
    /\ InitialFailed
    /\ RepairedFailed

\* C2: clean_sql applied to its own output returns that output.
SanitizerIdempotent == fn_pc = "recleaned" => fn_out2 = fn_out

\* a raw text with a fence, which clean_sql changed, cleaned twice
SanitizerIdempotentWitness ==
    /\ fn_pc = "recleaned"
    /\ fn_in # None
    /\ Contains(fn_in, Fence)
    /\ fn_out # fn_in
    /\ fn_out # <<>>

\* C3: when the text given to the date substitution holds CURRENT_DATE, the
\* text after the substitution, on the initial and on the repair path,
\* holds the date literal of max_date and holds CURRENT_DATE nowhere.
DateSubstituted ==
    fn_pc \in {"dated", "repaired"} /\ Contains(fn_out, PLACEHOLDER)
        => /\ Contains(fn_out2, DateLiteral)
           /\ ~Contains(fn_out2, PLACEHOLDER)

\* C4: when the text given to the category loop holds a quoted English key
\* of category_map, the text after the loop holds the quoted value of that
\* key and holds the quoted key nowhere.
CategorySubstituted ==
    fn_pc = "translated"
        => \A k \in 1..Len(category_map) :
              Contains(fn_out, Quote(category_map[k].eng))
                  => /\ Contains(fn_out2, Quote(category_map[k].por))
                     /\ ~Contains(fn_out2, Quote(category_map[k].eng))

\* C5: whichever of the three completion calls fails, by raising or by a
\* body without the text field, no exception leaves the turn handler, and
\* the finished turn has shown a message after the failed call.
CompletionFailureAbsorbed ==
    \A i \in DOMAIN log :
        log[i].ev = "completion" /\ log[i].outcome \in {"raise", "notext"}
            => /\ pc # "aborted"
               /\ pc = "idle" => \E j \in Messages : j > i

\* C6: in a turn whose initial execution raised and whose repair gave no
\* query or a query that raised too, the entry of the turn holds the
\* question and no summary, no chart is drawn and the summarizer is not
\* called.
FailedLeavesNoSummary ==
    InTurn /\ InitialFailed /\ (RepairGaveNoSql \/ RepairedFailed)
        => /\ Len(history) >= 1
           /\ Entry.user = user_query
           /\ "summary" \notin DOMAIN Entry
           /\ Shows("chart") = {}
           /\ Calls("explain") = {}

\* a finished turn whose repair request returned no query
FailedLeavesNoSummaryWitness ==
    /\ pc = "idle"
    /\ InTurn
    /\ InitialFailed
    /\ RepairGaveNoSql
    /\ Shows("warning") # {}

\* C7: once an execution of the turn has returned zero rows, no table and no
\* chart is drawn, the summarizer is not called, the entry gets no summary,
\* no exception leaves the handler, and the finished turn has shown the
\* 'no data' warning.
EmptyResultSkips ==
    (\E i \in Execs : log[i].outcome = "empty")
        => /\ Shows("chart") = {}
           /\ Shows("dataframe") = {}
           /\ Calls("explain") = {}
           /\ "summary" \notin DOMAIN Entry
           /\ pc \in {"result", "sidebar", "idle"}
           /\ pc \in {"sidebar", "idle"}
                 => \E i \in Shows("warning") :
                       log[i].msg = "No data returned for this query."

\* a finished turn whose repaired query returned zero rows in a frame with
\* a numeric column
EmptyResultSkipsWitness ==
    /\ pc = "idle"
    /\ Cardinality(Execs) = 2
    /\ \E i \in Execs : log[i].outcome = "empty"
    /\ result = [rows |-> 0, num_cols |-> 1]

\* the ends of b hold neither a backtick nor a whitespace character
CleanEnds(b) ==
    b # <<>> => /\ Head(b) \notin Whitespace \cup {Backtick}
                /\ b[Len(b)] \notin Whitespace \cup {Backtick}

\* C8: the output of clean_sql neither starts nor ends with a backtick, a
\* space, a newline, a carriage return or a tab, and holds no fence; a
\* fenced body with clean ends and no backtick comes back as the body; None
\* gives the empty string.
SanitizerShape ==
    fn_pc = "cleaned"
        => /\ CleanEnds(fn_out)
           /\ ~Contains(fn_out, Fence)
           /\ \A tag \in Tags, b \in StringsUpTo(2) :
                 /\ fn_in = Fenced(tag, b)
                 /\ CleanEnds(b)
                 /\ \A k \in DOMAIN b : b[k] # Backtick
                 => fn_out = b
           /\ fn_in = None => fn_out = <<>>

\* C9: a script run that handled a question is over only at the end of the
\* script, with a message or a result shown.
TurnEndsIdle ==
    InTurn /\ RunOver => pc = "idle" /\ Messages # {}

\* C10: a finished turn with an execution that returned rows has an entry
\* with the question and a summary, the text of the summarizer or the
\* fallback; attaching a summary changes no other entry.
SuccessPopulatesEntry ==
    /\ [](InTurn /\ RunOver /\ (\E i \in Execs : log[i].outcome = "rows")
            => /\ Entry.user = user_query
               /\ "summary" \in DOMAIN Entry
               /\ Entry.summary \in Summaries \cup {Fallback})
    /\ [][Len(history') = Len(history)
            => \A i \in 1..(Len(history) - 1) : history'[i] = history[i]]_vars

\* the execution events of the run, in order
ExecSeq == SelectSeq(log, LAMBDA e : e.ev = "execute")

\* the messages with which the engine raises
EngineErrors == {o.e : o \in {x \in Execute : x.raised}}

\* C11: a repair completion is requested only in a turn whose initial
\* execution raised, and once the handler has caught that error exactly one
\* request has been made; its prompt holds the text of the failed execution
\* and the message of the engine; when the repaired execution raises too,
\* the 'Still invalid' error is shown and the result is the empty frame, and
\* when the repair gives no query the result is the empty frame as well.
RepairOnlyOnError ==
    /\ Calls("fix") # {} => InitialFailed
    /\ InTurn /\ InitialFailed /\ pc # "repair"
          => Cardinality(Calls("fix")) = 1
    /\ \A c \in Calls("fix") :
          /\ log[c].prompt.original_sql = ExecSeq[1].sql
          /\ log[c].prompt.error_message \in EngineErrors
          /\ \A i \in Execs : i < c => log[i].outcome = "error"
    /\ RepairedFailed
          => /\ \E m \in Shows("error") :
                   log[m].msg = "Still invalid after correction"
             /\ result = EmptyFrame
    /\ RepairGaveNoSql /\ pc \in {"result", "sidebar", "idle"}
          => result = EmptyFrame

\* a finished turn with one repair request after the failed initial
\* execution and a repaired execution that raised
RepairOnlyOnErrorWitness ==
    /\ pc = "idle"
    /\ InitialFailed
    /\ RepairedFailed
    /\ \E c \in Calls("fix") : log[c].prompt.original_sql = ExecSeq[1].sql
    /\ Shows("error") # {}
    /\ result = EmptyFrame

\* the text returned by the c-th call of the log, a completion with a text
ReplyText(c) == log[c].reply.res.text

\* C12: the text of the initial execution is the sanitized generated text
\* with the categories translated and then the date substituted; the text of
\* the repaired execution is the sanitized repair text with the date
\* substituted only, so a quoted English key of category_map in it reaches
\* the engine as it is.
SubstitutionAsymmetry ==
    /\ \A g \in Calls("generate") :
          Len(ExecSeq) >= 1
              => ExecSeq[1].sql =
                    DateSubst(CategorySubst(clean_sql(ReplyText(g))))
    /\ \A c \in Calls("fix") :
          Len(ExecSeq) >= 2
              => /\ ExecSeq[2].sql = DateSubst(clean_sql(ReplyText(c)))
                 /\ \A k \in 1..Len(category_map) :
                       Contains(clean_sql(ReplyText(c)),
                                Quote(category_map[k].eng))
                           => Contains(ExecSeq[2].sql,
                                       Quote(category_map[k].eng))

\* both attempts were given the same text with 'toys': the initial one
\* executed it translated, the repaired one untranslated
SubstitutionAsymmetryWitness ==
    /\ Len(ExecSeq) = 2
    /\ \E g \in Calls("generate"), c \in Calls("fix") :
          ReplyText(g) = ReplyText(c)
    /\ Contains(ExecSeq[1].sql, Quote(category_map[5].por))
    /\ ~Contains(ExecSeq[1].sql, Quote(toys))
    /\ Contains(ExecSeq[2].sql, Quote(toys))
    /\ Contains(ExecSeq[2].sql, DateLiteral)

\* C13: a submitted question appends one entry, with that question, at the
\* end of the history and nothing else does; no step removes or reorders
\* entries or changes the question of an entry; a summary is written only
\* to an entry without one, and only to the last entry during the turn
\* that appended it.
HistoryAppendOnly ==
    [][/\ Len(history') \in {Len(history), Len(history) + 1}
       /\ \A i \in 1..Len(history) :
             /\ history'[i].user = history[i].user
             /\ "summary" \in DOMAIN history[i] => history'[i] = history[i]
             /\ history'[i] # history[i]
                   => /\ i = Len(history)
                      /\ InTurn
                      /\ pc = "summarize"
                      /\ DOMAIN history'[i] = {"user", "summary"}
       /\ pc' = "generate"
             <=> /\ Len(history') = Len(history) + 1
                 /\ history'[Len(history')] = [user |-> user_query']
                 /\ user_query' # ""]_vars

\* the second turn of a session is over with its summary attached, next to
\* a first entry that got none
HistoryAppendOnlyWitness ==
    /\ pc = "idle"
    /\ Len(history) = 2
    /\ "summary" \notin DOMAIN history[1]
    /\ "summary" \in DOMAIN history[2]

\* the 'no data' warning of line 173 was shown
NoDataReported ==
    \E m \in Shows("warning") : log[m].msg = "No data returned for this query."

\* C14: 'no data' is reported only in a turn with an execution that
\* returned zero rows; a turn whose executions all raised, or whose repair
\* gave no query, is not reported as 'no data'.
NoDataOnlyForEmptyResult ==
    NoDataReported => \E i \in Execs : log[i].outcome = "empty"

\* C15: when the response to the summarizer has no text field, no exception
\* leaves explain_results: the fallback string is written out and stored as
\* the summary of the entry of the turn, and the turn goes on to its end.
SummarizerFallback ==
    \A c \in Calls("explain") :
        log[c].outcome = "notext"
            => /\ pc \in {"sidebar", "idle"}
               /\ "summary" \in DOMAIN Entry
               /\ Entry.summary = "Could not generate summary."
               /\ \E m \in Shows("write") :
                     m > c /\ log[m].msg = "Could not generate summary."

\* a finished turn whose summarizer got a response without the text field
SummarizerFallbackWitness ==
    /\ pc = "idle"
    /\ \E c \in Calls("explain") : log[c].outcome = "notext"
    /\ "summary" \in DOMAIN Entry
    /\ Entry.summary = Fallback

\* x is one of the pieces of the line
InLine(x, line) == \E k \in DOMAIN line : line[k] = x

\* C16 as claimed: the prompt of the generate call holds one line for each
\* prior turn, in order, with the question of that turn and, where the turn
\* has one, its summary; it holds the current question as the question to
\* answer; the current turn is not among the lines, and the first turn has
\* no line.
ReplayWithSummaries ==
    \A g \in Calls("generate") :
        LET ht == log[g].prompt.history_text
        IN  /\ Len(ht) = Len(history) - 1
            /\ \A i \in 1..(Len(history) - 1) :
                  /\ InLine(history[i].user, ht[i])
                  /\ "summary" \in DOMAIN history[i]
                        => InLine(history[i].summary, ht[i])
            /\ log[g].prompt.user_query = Entry.user
            /\ Len(history) = 1 => ht = <<>>

\* C16 as amended: the prompt of the generate call holds one line for each
\* prior turn, in order, made of "User: " and the question of that turn and
\* of nothing else, so no summary is replayed; it holds the current question
\* as the question to answer; the current turn is not among the lines, and
\* the first turn has no line.
ReplayQuestionsOnly ==
    \A g \in Calls("generate") :
        LET ht == log[g].prompt.history_text
        IN  /\ ht = [i \in 1..(Len(history) - 1) |->
                        <<"User: ", history[i].user>>]
            /\ \A i \in DOMAIN ht :
                  "summary" \in DOMAIN history[i]
                      => ~InLine(history[i].summary, ht[i])
            /\ log[g].prompt.user_query = Entry.user
            /\ log[g].prompt.user_query = user_query
            /\ Len(history) = 1 => ht = <<>>

\* the generate call of a second turn whose prior turn has a summary
ReplayQuestionsOnlyWitness ==
    /\ Len(history) = 2
    /\ "summary" \in DOMAIN history[1]
    /\ \E g \in Calls("generate") : Len(log[g].prompt.history_text) = 1

\* the generate call of the run produced no answer: its response has no text
\* field, or a text that clean_sql turns into the empty string
NoAnswer ==
    \E g \in Calls("generate") :
        \/ log[g].outcome = "notext"
        \/ log[g].outcome = "text" /\ clean_sql(ReplyText(g)) = <<>>

\* C17: in a turn whose generation produced no answer nothing is executed,
\* no repair and no summary is requested, the entry of the turn holds the
\* question and no summary, and the 'could not generate' warning is shown
\* before the turn ends.
NoAnswerNothingExecuted ==
    NoAnswer
        => /\ Execs = {}
           /\ Calls("fix") = {}
           /\ Calls("explain") = {}
           /\ Entry.user = user_query
           /\ "summary" \notin DOMAIN Entry
           /\ pc \in {"guard", "sidebar", "idle"}
           /\ pc \in {"sidebar", "idle"}
                 => \E m \in Shows("warning") :
                       log[m].msg =
                           "Gemini could not generate SQL for that query."

\* a finished turn whose generated text was a bare fence, sanitized to the
\* empty string
NoAnswerNothingExecutedWitness ==
    /\ pc = "idle"
    /\ \E g \in Calls("generate") :
          /\ log[g].outcome = "text"
          /\ ReplyText(g) = Fence
    /\ sql_query = <<>>
    /\ Shows("warning") # {}

\* the name under which an event takes part in the order of calls
Tag(e) == IF e.ev = "completion" THEN e.who ELSE e.ev

\* the append, the completion calls and the executions of the run, in order
CallSeq ==
    LET s == SelectSeq(log, LAMBDA e :
                            e.ev \in {"append", "completion", "execute"})
    IN  [i \in DOMAIN s |-> Tag(s[i])]

IsPrefix(s, t) == Len(s) <= Len(t) /\ SubSeq(t, 1, Len(s)) = s

\* the two complete orders of a turn: with and without a repair
TurnOrders ==
    {<<"append", "generate", "execute", "explain">>,
     <<"append", "generate", "execute", "fix", "execute", "explain">>}

\* C18: the calls of a script run follow the order append, generate
\* completion, initial execution, then optionally repair completion and
\* repaired execution, then optionally the summarize completion; a run makes
\* at most three completion calls; the summarizer is called only when the
\* latest execution before it returned rows.
CallOrder ==
    /\ \E t \in TurnOrders : IsPrefix(CallSeq, t)
    /\ Cardinality({i \in DOMAIN log : log[i].ev = "completion"}) <= 3
    /\ \A c \in Calls("explain") :
          \E i \in Execs :
             /\ i < c
             /\ \A j \in Execs : j <= i
             /\ log[i].outcome = "rows"

\* a finished turn with all six calls
CallOrderWitness ==
    /\ pc = "idle"
    /\ CallSeq = <<"append", "generate", "execute", "fix", "execute",
                   "explain">>

====
